---- MODULE Spec2Model ----
(***************************************************************************)
(* A model of recipe_scaler.py: scale_recipe, display_recipe,              *)
(* convert_units, get_best_unit, convert_cups_to_grams and main.           *)
(*                                                                         *)
(* Numbers.  Python floats are modelled as exact decimal rationals.  An    *)
(* amount is an integer number of hundredths (150 is 1.5); a scaled amount *)
(* before rounding is a fraction num/den.  round() goes to the nearest     *)
(* value.  Where the decimal value is a tie the float is not: in           *)
(* convert_units either neighbour is a possible result (FloatRound); in    *)
(* scale_recipe and display_recipe the tie goes to the even neighbour      *)
(* (HalfEven), which is what the code returns on the recipes of Pool.      *)
(*                                                                         *)
(* Objects.  Python dicts are mutable and shared by reference, so the      *)
(* ingredient dicts live in a heap (address -> dict) and a recipe holds a  *)
(* list of addresses.  A dict's present keys are its "keys" field.         *)
(***************************************************************************)
EXTENDS Integers, Sequences, FiniteSets, TLC

VARIABLES
    heap,         \* address -> ingredient dict
    recipe,       \* the caller's recipe dict (the argument of scale_recipe)
    newServings,  \* the new_servings argument
    result,       \* outcome of scale_recipe
    lines,        \* what display_recipe printed after the header
    shown,        \* display_recipe has run
    heap0,        \* the heap as it was before scale_recipe was called
    cAmount, cUnit, cTarget, cOut, cBack,   \* convert_units: arguments, result, result converted back
    recipes,      \* main: number of recipes load_recipes returned
    pc,           \* main: where it is
    choice,       \* main: the last selection typed, minus one
    servingsIn,   \* main: the last serving count typed
    lastInput,    \* main: the last line typed at a prompt
    prompts,      \* main: calls of input() so far
    scaleCalls,   \* main: calls of scale_recipe so far
    scaleArgs     \* main: the arguments of the call of scale_recipe

scaleVars == <<heap, recipe, newServings, result, lines, shown, heap0>>
convVars  == <<cAmount, cUnit, cTarget, cOut, cBack>>
mainVars  == <<recipes, pc, choice, servingsIn, lastInput, prompts, scaleCalls, scaleArgs>>
vars      == <<scaleVars, convVars, mainVars>>

----------------------------------------------------------------------------
(* Bounds of the model *)

MaxIngr == 2          \* ingredients in a recipe
MaxServings == 2      \* recipe['servings'] ranges over 0..MaxServings
MaxNewServings == 3   \* new_servings ranges over 0..MaxNewServings

----------------------------------------------------------------------------
(* Arithmetic *)

\* num/den for den > 0 as its floor q and the side of the half its remainder
\* lies on: cmp is -1 below, 0 on (a tie), 1 above.
DivParts(num, den) ==
    LET r == num % den
    IN  [q |-> num \div den,
         cmp |-> IF 2 * r < den THEN -1 ELSE IF 2 * r > den THEN 1 ELSE 0]

Pow10(k) == CASE k = 0 -> 1 [] k = 1 -> 10 [] k = 2 -> 100 [] k = 3 -> 1000
              [] k = 4 -> 10000 [] k = 5 -> 100000 [] k = 6 -> 1000000
              [] k = 7 -> 10000000 [] k = 8 -> 100000000 [] k = 9 -> 1000000000

\* a * b / 10^k in the same form, for 0 <= a < 10^8, 0 <= b < 10^6 and
\* 1 <= k <= 9, computed in limbs of 10^4 so that no intermediate product
\* leaves 32 bits.
MulDivParts(a, b, k) ==
    LET B  == 10000
        a1 == a \div B
        a0 == a % B
        b1 == b \div B
        b0 == b % B
        L  == a0 * b0
        M  == a1 * b0 + a0 * b1 + (L \div B)
        H  == a1 * b1 + (M \div B)            \* a*b = H * 10^8 + R
        R  == (M % B) * B + (L % B)
        r  == IF k <= 8 THEN R % Pow10(k) ELSE (H % 10) * Pow10(8) + R
        h  == Pow10(k) \div 2
    IN  [q |-> IF k <= 8 THEN H * Pow10(8 - k) + (R \div Pow10(k)) ELSE H \div 10,
         cmp |-> IF r < h THEN -1 ELSE IF r > h THEN 1 ELSE 0]

\* Python's round(): the nearest integer, a tie going to the even neighbour.
HalfEven(p) ==
    IF p.cmp < 0 THEN p.q
    ELSE IF p.cmp > 0 THEN p.q + 1
    ELSE IF p.q % 2 = 0 THEN p.q ELSE p.q + 1

\* round() of a float product whose decimal value is p.  Off a tie the result
\* is the nearest integer.  On a decimal tie the binary float lies just below
\* or just above the tie (or on it), so either neighbour can come out.
FloatRound(p) ==
    IF p.cmp < 0 THEN {p.q}
    ELSE IF p.cmp > 0 THEN {p.q + 1}
    ELSE {p.q, p.q + 1}

RoundHalfEven(num, den) == HalfEven(DivParts(num, den))

MulDivRound(a, b, k) == HalfEven(MulDivParts(a, b, k))

\* Python's "key in name" on strings.
IsSubstring(key, name) ==
    \E i \in 0..(Len(name) - Len(key)) : SubSeq(name, i + 1, i + Len(key)) = key

\* str.lower() on the unit and ingredient names the model uses.
Lower(s) ==
    CASE s = "Cup" -> "cup"
      [] s = "CUP" -> "cup"
      [] s = "Tbsp" -> "tbsp"
      [] s = "G" -> "g"
      [] s = "Salt" -> "salt"
      [] OTHER -> s

----------------------------------------------------------------------------
(* Tables *)

\* INGREDIENT_DENSITY as in force at run time (the second assignment), grams
\* per cup in thousandths, in the dict's iteration order.
INGREDIENT_DENSITY ==
    << <<"flour", 125000>>, <<"sugar", 200000>>, <<"brown sugar", 220000>>,
       <<"butter", 227000>>, <<"chocolate chips", 175000>>, <<"milk", 240000>>,
       <<"oil", 215000>>, <<"honey", 340000>>, <<"oats", 90000>>,
       <<"rice", 200000>>, <<"pasta", 100000>>, <<"cheese", 113000>>,
       <<"yogurt", 245000>>, <<"cream", 240000>>, <<"water", 236588>> >>

\* Index of the first density key contained in the name, 0 if none.
FirstDensityMatch(lowerName) ==
    LET hits == {i \in 1..Len(INGREDIENT_DENSITY) :
                    IsSubstring(INGREDIENT_DENSITY[i][1], lowerName)}
    IN  IF hits = {} THEN 0 ELSE CHOOSE i \in hits : \A j \in hits : i <= j

skip_conversion ==
    {"garlic", "ginger", "onion", "pepper", "salt", "baking powder",
     "baking soda", "yeast", "spices", "herbs", "vanilla extract", "extract"}

volume_units == {"tbsp", "tsp", "cup", "pint", "quart", "liter", "ml"}
weight_units == {"g", "kg", "oz", "lb"}

----------------------------------------------------------------------------
(* Dicts *)

AllKeys == {"name", "amount", "unit"}

\* An ingredient dict; a key outside "keys" is absent from the dict.
Ingredient(keys, name, amount, unit) ==
    [keys |-> keys, name |-> name, amount |-> amount, unit |-> unit]

\* A recipe dict; ingredients is the list of the ingredient dicts' addresses.
Recipe(keys, name, servings, ingredients) ==
    [keys |-> keys, name |-> name, servings |-> servings, ingredients |-> ingredients]

\* The outcome of a call of scale_recipe: what it returned or raised, and the
\* address of the returned dict (0 when there is none).
Outcome(kind, ref) == [kind |-> kind, ref |-> ref]

----------------------------------------------------------------------------
(* scale_recipe *)

\* The same loop body with the cup threshold at 0.2 instead of 0.25.
ScaleIngredientLowThreshold(ing, ns, s) ==
    LET num  == ing.amount * ns
        den  == 100 * s
        unit == ing.unit
    IN  IF unit = "piece"
        THEN [ing EXCEPT !.amount = RoundHalfEven(num * 4, den) * 25]
        ELSE IF unit \in {"cup", "tbsp", "tsp"}
        THEN IF unit = "cup" /\ num * 5 < den
             THEN IF num * 16 >= den
                  THEN [ing EXCEPT !.amount = RoundHalfEven(num * 16 * 10, den) * 10,
                                   !.unit = "tbsp"]
                  ELSE [ing EXCEPT !.amount = RoundHalfEven(num * 16 * 3 * 10, den) * 10,
                                   !.unit = "tsp"]
             ELSE IF unit = "tbsp" /\ num * 2 < den
             THEN [ing EXCEPT !.amount = RoundHalfEven(num * 3 * 10, den) * 10,
                              !.unit = "tsp"]
             ELSE IF unit = "cup"
                  THEN [ing EXCEPT !.amount = RoundHalfEven(num * 100, den)]
                  ELSE [ing EXCEPT !.amount = RoundHalfEven(num * 10, den) * 10]
        ELSE IF unit \in {"g", "ml"}
        THEN [ing EXCEPT !.amount = RoundHalfEven(num, den) * 100]
        ELSE [ing EXCEPT !.amount = RoundHalfEven(num * 10, den) * 10]

\* The body of the for loop for one ingredient: the dict after lines 121-157,
\* for an amount of num/den (ingredient['amount'] * scale_factor, in units).
ScaleIngredient(ing, ns, s) ==
    LET num  == ing.amount * ns
        den  == 100 * s
        unit == ing.unit
    IN  IF unit = "piece"
        THEN [ing EXCEPT !.amount = RoundHalfEven(num * 4, den) * 25]
        ELSE IF unit \in {"cup", "tbsp", "tsp"}
        THEN IF unit = "cup" /\ num * 4 < den                    \* scaled_amount < 0.25
             THEN IF num * 16 >= den                             \* tbsp >= 1
                  THEN [ing EXCEPT !.amount = RoundHalfEven(num * 16 * 10, den) * 10,
                                   !.unit = "tbsp"]
                  ELSE [ing EXCEPT !.amount = RoundHalfEven(num * 16 * 3 * 10, den) * 10,
                                   !.unit = "tsp"]
             ELSE IF unit = "tbsp" /\ num * 2 < den              \* scaled_amount < 0.5
             THEN [ing EXCEPT !.amount = RoundHalfEven(num * 3 * 10, den) * 10,
                              !.unit = "tsp"]
             ELSE IF unit = "cup"
                  THEN [ing EXCEPT !.amount = RoundHalfEven(num * 100, den)]
                  ELSE [ing EXCEPT !.amount = RoundHalfEven(num * 10, den) * 10]
        ELSE IF unit \in {"g", "ml"}
        THEN [ing EXCEPT !.amount = RoundHalfEven(num, den) * 100]
        ELSE [ing EXCEPT !.amount = RoundHalfEven(num * 10, den) * 10]

\* The for loop of lines 119-157 from the i-th ingredient on: the heap it
\* leaves and the exception that ended it ("" if none).
RECURSIVE ScaleLoop(_, _, _, _, _)
ScaleLoop(h, addrs, i, ns, s) ==
    IF i > Len(addrs) THEN [heap |-> h, error |-> ""]
    ELSE LET a == addrs[i]
         IN  IF "amount" \notin h[a].keys \/ "unit" \notin h[a].keys
             THEN [heap |-> h, error |-> "KeyError"]
             ELSE ScaleLoop([h EXCEPT ![a] = ScaleIngredient(h[a], ns, s)],
                            addrs, i + 1, ns, s)

\* recipe.copy(): the address of the new dict, given the number of allocated ones.
CopyRecipeAlias(base, r) == r
CopyRecipe(base, r) == base + 1

\* ingredient.copy() for the i-th ingredient, which lives at address a.
CopyIngredientAlias(base, i, a) == a
CopyIngredient(base, i, a) == base + 1 + i

\* scale_recipe(recipe, new_servings), on the heap h with recipe at address r:
\* the heap it leaves and its outcome.
scale_recipe(h, r, ns) ==
    LET rec == h[r] IN
    IF rec.keys = {} \/ ns <= 0
    THEN [heap |-> h, out |-> Outcome("None", 0)]
    ELSE IF "servings" \notin rec.keys \/ "ingredients" \notin rec.keys
    THEN [heap |-> h, out |-> Outcome("None", 0)]
    ELSE
      LET base  == Cardinality(DOMAIN h)
          n     == Len(rec.ingredients)
          sr    == CopyRecipe(base, r)
          addrs == [i \in 1..n |-> CopyIngredient(base, i, rec.ingredients[i])]
          \* lines 100-101: the copies are allocated
          h1 == [a \in 1..(base + 1 + n) |->
                    IF a <= base THEN h[a]
                    ELSE IF a = base + 1 THEN rec
                    ELSE h[rec.ingredients[a - base - 1]]]
          h2 == [h1 EXCEPT ![sr].ingredients = addrs]
          s  == h2[r].servings                             \* line 104
          h3 == [h2 EXCEPT ![sr].servings = ns]            \* line 105
          loop == ScaleLoop(h3, h3[sr].ingredients, 1, ns, s)
      IN  IF s = 0
          THEN [heap |-> h2, out |-> Outcome("ZeroDivisionError", 0)]
          ELSE IF loop.error # ""
          THEN [heap |-> loop.heap, out |-> Outcome(loop.error, 0)]
          ELSE [heap |-> loop.heap, out |-> Outcome("ok", sr)]

----------------------------------------------------------------------------
(* get_best_unit *)

\* any(skip in ingredient_lower for skip in skip_conversion)
IsExempt(lowerName) == \E k \in skip_conversion : IsSubstring(k, lowerName)

\* get_best_unit(ingredient_name, amount, current_unit): the pair it returns.
\* ml * density is amount * F / 10^f * D / 1000, rounded to tenths of a gram.
get_best_unit(ingredient_name, amount, current_unit) ==
    LET ingredient_lower == Lower(ingredient_name)
        m     == FirstDensityMatch(ingredient_lower)
        D     == INGREDIENT_DENSITY[m][2]
        grams == CASE current_unit = "cup"  -> MulDivRound(amount * D, 236588, 7) * 10
                   [] current_unit = "tbsp" -> MulDivRound(amount * D, 147868, 8) * 10
                   [] current_unit = "tsp"  -> MulDivRound(amount * D, 492892, 9) * 10
                   [] OTHER                 -> MulDivRound(amount * D, 1, 4) * 10
        rest  == IF current_unit = "cup" /\ amount < 25 /\ amount * 16 >= 100
                 THEN [amount |-> RoundHalfEven(amount * 16, 10) * 10, unit |-> "tbsp"]
                 ELSE IF current_unit = "tbsp" /\ amount < 100 /\ amount * 3 >= 100
                 THEN [amount |-> RoundHalfEven(amount * 3, 10) * 10, unit |-> "tsp"]
                 ELSE [amount |-> amount, unit |-> current_unit]
    IN  IF IsExempt(ingredient_lower)
        THEN [amount |-> amount, unit |-> current_unit]
        ELSE IF current_unit \in {"cup", "tbsp", "tsp", "pint", "quart", "liter", "ml"}
                /\ m # 0 /\ grams >= 100
        THEN [amount |-> grams, unit |-> "g"]
        ELSE rest

----------------------------------------------------------------------------
(* display_recipe *)

\* convert_cups_to_grams(ingredient_name, amount): whole grams.
convert_cups_to_grams(ingredient_name, amount) ==
    LET m == FirstDensityMatch(Lower(ingredient_name))
    IN  IF m # 0 THEN MulDivRound(amount, INGREDIENT_DENSITY[m][2], 5)
        ELSE MulDivRound(amount, 125000, 5)

\* frac_map.get(parts[1][:2], '') for fraction = round(amount * 4) / 4, in
\* hundredths: the decimals of a multiple of a quarter are 0, 25, 5 or 75.
FracPart(fraction) ==
    CASE fraction % 100 = 25 -> "1/4"
      [] fraction % 100 = 50 -> "1/2"
      [] fraction % 100 = 75 -> "3/4"
      [] OTHER -> ""

\* A printed ingredient line "- <quantity> <unit> <name>": the quantity is a
\* fraction text or a number (in hundredths), the unit may be empty.
Line(frac, value, unit, name) ==
    [frac |-> frac, value |-> value, unit |-> unit, name |-> name]

\* One pass of the for loop of display_recipe: the lines it prints (none or one).
DisplayIngredient(ing) ==
    LET amount   == ing.amount
        unit     == ing.unit
        name     == ing.name
        fraction == RoundHalfEven(amount * 4, 100) * 25
    IN  IF unit = "piece"
        THEN IF amount < 100 /\ fraction % 100 # 0 /\ FracPart(fraction) # ""
             THEN << Line(FracPart(fraction), 0, "", name) >>
             ELSE << Line("", amount, "", name) >>
        ELSE IF unit = "cup"
        THEN << Line("", convert_cups_to_grams(name, amount) * 100, "g", name) >>
        ELSE IF unit \in {"tsp", "tbsp"}
        THEN IF unit = "tbsp" /\ amount < 50
             THEN << Line("", RoundHalfEven(amount * 3, 10) * 10, "tsp", name) >>
             ELSE IF unit = "tsp" /\ amount < 100
             THEN IF fraction % 100 # 0 /\ FracPart(fraction) # ""
                  THEN << Line(FracPart(fraction), 0, "tsp", name) >>
                  ELSE << >>
             ELSE << Line("", RoundHalfEven(amount, 10) * 10, unit, name) >>
        ELSE << Line("", amount, unit, name) >>

\* The for loop of display_recipe from the i-th ingredient on.
RECURSIVE DisplayLoop(_, _, _)
DisplayLoop(h, addrs, i) ==
    IF i > Len(addrs) THEN << >>
    ELSE DisplayIngredient(h[addrs[i]]) \o DisplayLoop(h, addrs, i + 1)

\* display_recipe(recipe) for the recipe dict at address ref: the lines after
\* the header.
display_recipe(h, ref) == DisplayLoop(h, h[ref].ingredients, 1)

----------------------------------------------------------------------------
(* Inputs of scale_recipe: the recipes a loader can supply *)

\* Well-formed ingredients, chosen so that every branch of the scaling and
\* display rules is taken, and two ingredients with a key missing.
Pool ==
    { Ingredient(AllKeys, n, a, "cup")   : n \in {"flour"}, a \in {0, 5, 13, 20, 160} }
    \cup { Ingredient(AllKeys, n, a, "cup")   : n \in {"salt"}, a \in {20, 160} }
    \cup { Ingredient(AllKeys, n, a, "cup")   : n \in {"eggs"}, a \in {160} }
    \cup { Ingredient(AllKeys, n, a, "tbsp")  : n \in {"salt"}, a \in {0, 13, 160} }
    \cup { Ingredient(AllKeys, n, a, "tsp")   : n \in {"salt"}, a \in {0, 13, 160} }
    \cup { Ingredient(AllKeys, n, a, "piece") : n \in {"eggs"}, a \in {0, 160} }
    \cup { Ingredient(AllKeys, n, a, "g")     : n \in {"flour"}, a \in {0, 160} }
    \cup { Ingredient(AllKeys, n, a, "oz")    : n \in {"flour"}, a \in {0, 13} }
    \cup { Ingredient({"name", "unit"}, "flour", 0, "cup"),
           Ingredient({"name", "amount"}, "flour", 160, "") }

IngredientLists == UNION { [1..n -> Pool] : n \in 0..MaxIngr }

RecipeKeys == { {}, {"name", "servings", "ingredients"},
                {"name", "ingredients"}, {"name", "servings"} }

\* The heap holding one recipe at address 1 and its ingredients after it.
HeapOf(keys, servings, ings) ==
    [a \in 1..(1 + Len(ings)) |->
        IF a = 1
        THEN Recipe(keys, IF "name" \in keys THEN "Cookies" ELSE "",
                    IF "servings" \in keys THEN servings ELSE 0,
                    IF "ingredients" \in keys
                    THEN [i \in 1..Len(ings) |-> 1 + i] ELSE << >>)
        ELSE ings[a - 1]]

----------------------------------------------------------------------------
(* Scaling and display: scale_recipe is called once on a loaded recipe and,  *)
(* as in main, display_recipe is called on what it returned if that is a     *)
(* recipe.                                                                   *)

ConvIdle == /\ cAmount = 0 /\ cUnit = "" /\ cTarget = "" 
            /\ cOut = [kind |-> "idle", amount |-> 0, unit |-> ""]
            /\ cBack = [kind |-> "idle", amount |-> 0, unit |-> ""]

NoInput == [int |-> FALSE, value |-> 0]

MainIdle == /\ recipes = 0 /\ pc = "idle" /\ choice = 0 /\ servingsIn = 0
            /\ lastInput = NoInput /\ prompts = 0
            /\ scaleCalls = 0 /\ scaleArgs = << >>

ScaleIdle == /\ heap = << >> /\ heap0 = << >> /\ recipe = 0 /\ newServings = 0
             /\ result = Outcome("idle", 0) /\ lines = << >> /\ shown = FALSE

InitScale ==
    /\ \E keys \in RecipeKeys, s \in 0..MaxServings, ings \in IngredientLists :
          /\ "servings" \notin keys => s = 0
          /\ "ingredients" \notin keys => ings = << >>
          /\ heap = HeapOf(keys, s, ings)
    /\ heap0 = heap
    /\ recipe = 1
    /\ newServings \in 0..MaxNewServings
    /\ result = Outcome("pending", 0)
    /\ lines = << >>
    /\ shown = FALSE
    /\ ConvIdle
    /\ MainIdle

\* scaled_recipe = scale_recipe(selected_recipe, new_servings)
Scale ==
    /\ result.kind = "pending"
    /\ LET r == scale_recipe(heap, recipe, newServings)
       IN  /\ heap' = r.heap
           /\ result' = r.out
    /\ UNCHANGED <<recipe, newServings, lines, shown, heap0, convVars, mainVars>>

\* if scaled_recipe: display_recipe(scaled_recipe)
Display ==
    /\ result.kind = "ok"
    /\ ~shown
    /\ lines' = display_recipe(heap, result.ref)
    /\ shown' = TRUE
    /\ UNCHANGED <<heap, recipe, newServings, result, heap0, convVars, mainVars>>

NextScale == Scale \/ Display

SpecScale == InitScale /\ [][NextScale]_vars

----------------------------------------------------------------------------
(* convert_units *)

\* A conversion factor p / (q * 10^k), as the source writes it.
Factor(p, q, k) == [p |-> p, q |-> q, k |-> k]

CONVERSIONS ==
    [tbsp  |-> [tsp |-> Factor(3, 1, 0), cup |-> Factor(1, 16, 0),
                pint |-> Factor(1, 32, 0), quart |-> Factor(1, 64, 0),
                liter |-> Factor(147868, 1, 7), ml |-> Factor(147868, 1, 4)],
     tsp   |-> [tbsp |-> Factor(1, 3, 0), cup |-> Factor(1, 48, 0),
                pint |-> Factor(1, 96, 0), quart |-> Factor(1, 192, 0),
                liter |-> Factor(492892, 1, 8), ml |-> Factor(492892, 1, 5)],
     cup   |-> [tbsp |-> Factor(16, 1, 0), tsp |-> Factor(48, 1, 0),
                pint |-> Factor(5, 1, 1), quart |-> Factor(25, 1, 2),
                liter |-> Factor(236588, 1, 6), ml |-> Factor(236588, 1, 3)],
     pint  |-> [tbsp |-> Factor(32, 1, 0), tsp |-> Factor(96, 1, 0),
                cup |-> Factor(2, 1, 0), quart |-> Factor(5, 1, 1),
                liter |-> Factor(473176, 1, 6), ml |-> Factor(473176, 1, 3)],
     quart |-> [tbsp |-> Factor(64, 1, 0), tsp |-> Factor(192, 1, 0),
                cup |-> Factor(4, 1, 0), pint |-> Factor(2, 1, 0),
                liter |-> Factor(946353, 1, 6), ml |-> Factor(946353, 1, 3)],
     liter |-> [tbsp |-> Factor(67628, 1, 3), tsp |-> Factor(202884, 1, 3),
                cup |-> Factor(422675, 1, 5), pint |-> Factor(211338, 1, 5),
                quart |-> Factor(105669, 1, 5), ml |-> Factor(1000, 1, 0)],
     ml    |-> [tbsp |-> Factor(67628, 1, 6), tsp |-> Factor(202884, 1, 6),
                cup |-> Factor(422675, 1, 8), pint |-> Factor(211338, 1, 8),
                quart |-> Factor(105669, 1, 8), liter |-> Factor(1, 1, 3)],
     g     |-> [kg |-> Factor(1, 1, 3), oz |-> Factor(35274, 1, 6),
                lb |-> Factor(220462, 1, 8)],
     kg    |-> [g |-> Factor(1000, 1, 0), oz |-> Factor(35274, 1, 3),
                lb |-> Factor(220462, 1, 5)],
     oz    |-> [g |-> Factor(283495, 1, 4), kg |-> Factor(283495, 1, 7),
                lb |-> Factor(625, 1, 4)],
     lb    |-> [g |-> Factor(453592, 1, 3), kg |-> Factor(453592, 1, 6),
                oz |-> Factor(16, 1, 0)]]

\* What convert_units returns: (amount, unit), or (None, None).
Converted(amount, unit) == [kind |-> "ok", amount |-> amount, unit |-> unit]
Unconvertible == [kind |-> "None", amount |-> 0, unit |-> ""]

\* The same with round(converted, 1): one decimal kept instead of two.
ConvertedAmountsOneDecimal(amount, f) ==
    IF f.k = 0 THEN {10 * v : v \in FloatRound(DivParts(amount * f.p, f.q * 10))}
    ELSE {10 * v : v \in FloatRound(MulDivParts(amount, f.p, f.k + 1))}

\* round(amount * factor, 2), in hundredths: the values round() can return.
ConvertedAmounts(amount, f) ==
    IF f.k = 0 THEN FloatRound(DivParts(amount * f.p, f.q))
    ELSE FloatRound(MulDivParts(amount, f.p, f.k))

\* convert_units(amount, unit, target_unit): the set of results it can return.
convert_units(amount, unit, target_unit) ==
    IF unit = target_unit THEN {Converted(amount, target_unit)}
    ELSE LET u == Lower(unit)
             t == Lower(target_unit)
         IN  IF (u \in volume_units /\ t \in volume_units)
                \/ (u \in weight_units /\ t \in weight_units)
             THEN IF u \in DOMAIN CONVERSIONS /\ t \in DOMAIN CONVERSIONS[u]
                  THEN {Converted(a, t) : a \in ConvertedAmounts(amount, CONVERSIONS[u][t])}
                  ELSE {Unconvertible}                    \* KeyError: pass
             ELSE {Unconvertible}

----------------------------------------------------------------------------
(* Conversion: convert_units is applied to an amount and two unit names, and *)
(* then to its result, back to the first unit.                               *)

MaxConvAmount == 1000     \* amounts range over 0.00 .. 10.00

ConvUnits == volume_units \cup weight_units \cup {"piece", "Cup", "G"}

InitConv ==
    /\ cAmount \in 0..MaxConvAmount
    /\ cUnit \in ConvUnits
    /\ cTarget \in ConvUnits
    /\ cOut = [kind |-> "idle", amount |-> 0, unit |-> ""]
    /\ cBack = [kind |-> "idle", amount |-> 0, unit |-> ""]
    /\ ScaleIdle
    /\ MainIdle

\* convert_units(x, a, b)
Convert ==
    /\ cOut.kind = "idle"
    /\ cOut' \in convert_units(cAmount, cUnit, cTarget)
    /\ UNCHANGED <<cAmount, cUnit, cTarget, cBack, scaleVars, mainVars>>

\* convert_units(convert_units(x, a, b)[0], b, a)
ConvertBack ==
    /\ cOut.kind = "ok"
    /\ cBack.kind = "idle"
    /\ cBack' \in convert_units(cOut.amount, cTarget, cUnit)
    /\ UNCHANGED <<cAmount, cUnit, cTarget, cOut, scaleVars, mainVars>>

NextConv == Convert \/ ConvertBack

SpecConv == InitConv /\ [][NextConv]_vars

----------------------------------------------------------------------------
(* main: the interactive prompt loop *)

MaxRecipes == 3     \* load_recipes returns 0..MaxRecipes recipes
MaxPrompts == 4     \* lines typed before the model stops following the session
MaxTyped == 4       \* integers typed range over -1..MaxTyped

\* What the user types at a prompt: text int() rejects, or an integer.
Inputs == {[int |-> FALSE, value |-> 0]}
          \cup {[int |-> TRUE, value |-> v] : v \in (-1)..MaxTyped}

\* 0 <= choice < len(recipes)
ValidChoiceOffByOne(c, n) == 0 <= c /\ c <= n
ValidChoice(c, n) == 0 <= c /\ c < n

\* new_servings > 0
ValidServings(v) == v > 0

InitMain ==
    /\ pc = "load"
    /\ recipes = 0
    /\ choice = 0
    /\ servingsIn = 0
    /\ lastInput = NoInput
    /\ prompts = 0
    /\ scaleCalls = 0
    /\ scaleArgs = << >>
    /\ ScaleIdle
    /\ ConvIdle

\* recipes = load_recipes(); if not recipes: return.  A missing or malformed
\* file gives the empty list.
Load ==
    /\ pc = "load"
    /\ \E n \in 0..MaxRecipes :
          /\ recipes' = n
          /\ pc' = IF n = 0 THEN "done" ELSE "select"
    /\ UNCHANGED <<choice, servingsIn, lastInput, prompts, scaleCalls, scaleArgs,
                   scaleVars, convVars>>

\* One pass of the first while loop: a line is read at the selection prompt.
SelectPrompt ==
    /\ pc = "select"
    /\ prompts < MaxPrompts
    /\ \E in \in Inputs :
          /\ lastInput' = in
          /\ IF ~in.int
             THEN UNCHANGED <<choice, pc>>                       \* ValueError
             ELSE /\ choice' = in.value - 1
                  /\ pc' = IF ValidChoice(in.value - 1, recipes)
                           THEN "servings" ELSE "select"
    /\ prompts' = prompts + 1
    /\ UNCHANGED <<recipes, servingsIn, scaleCalls, scaleArgs, scaleVars, convVars>>

\* One pass of the second while loop: a line is read at the servings prompt.
ServingsPrompt ==
    /\ pc = "servings"
    /\ prompts < MaxPrompts
    /\ \E in \in Inputs :
          /\ lastInput' = in
          /\ IF ~in.int
             THEN UNCHANGED <<servingsIn, pc>>                   \* ValueError
             ELSE /\ servingsIn' = in.value
                  /\ pc' = IF ValidServings(in.value) THEN "scale" ELSE "servings"
    /\ prompts' = prompts + 1
    /\ UNCHANGED <<recipes, choice, scaleCalls, scaleArgs, scaleVars, convVars>>

\* scaled_recipe = scale_recipe(selected_recipe, new_servings), and the display.
CallScale ==
    /\ pc = "scale"
    /\ scaleCalls' = scaleCalls + 1
    /\ scaleArgs' = <<choice, servingsIn>>
    /\ pc' = "done"
    /\ UNCHANGED <<recipes, choice, servingsIn, lastInput, prompts, scaleVars, convVars>>

NextMain == Load \/ SelectPrompt \/ ServingsPrompt \/ CallScale

SpecMain == InitMain /\ [][NextMain]_vars

----------------------------------------------------------------------------
(* Properties of scale_recipe and display_recipe (under SpecScale) *)

InRecipe == heap0[1]
NumIngr  == Len(InRecipe.ingredients)
InIng(i)  == heap0[InRecipe.ingredients[i]]
OutIng(i) == heap[heap[result.ref].ingredients[i]]
Called == result.kind # "pending"
Scaled == result.kind = "ok"

\* The exact scaled amount of the i-th ingredient is ScaledNum(i) / ScaledDen.
ScaledNum(i) == InIng(i).amount * newServings
ScaledDen == 100 * InRecipe.servings

ExemptVolume(ing) == IsExempt(Lower(ing.name)) /\ ing.unit \in volume_units

\* C1: scale_recipe never mutates its input.  Whatever it returns or raises,
\* every dict the caller passed in (the recipe and each ingredient) holds what
\* it held before the call; a returned recipe is a new dict with new
\* ingredient dicts and servings = new_servings.
C1_InputNeverMutated ==
    Called =>
       /\ \A a \in DOMAIN heap0 : heap[a] = heap0[a]
       /\ Scaled =>
             /\ result.ref \notin DOMAIN heap0
             /\ heap[result.ref].servings = newServings
             /\ \A i \in 1..NumIngr :
                   heap[result.ref].ingredients[i] \notin DOMAIN heap0

\* A call that returned a recipe in which some ingredient was rewritten.
C1_Witness ==
    /\ Scaled
    /\ \E i \in 1..NumIngr : OutIng(i) # InIng(i)

PreconditionViolated ==
    \/ newServings <= 0
    \/ "servings" \notin InRecipe.keys
    \/ "ingredients" \notin InRecipe.keys
    \/ InRecipe.servings <= 0
    \/ NumIngr = 0
    \/ \E i \in 1..NumIngr : ~({"amount", "unit"} \subseteq InIng(i).keys)

\* C2: every violation of scale's precondition (new_servings not positive,
\* servings not positive, a missing field, an empty ingredient list, an
\* ingredient without amount or unit) ends with scale_recipe returning None:
\* no scaled recipe, no exception.
C2_InvalidInputReturnsNone ==
    (Called /\ PreconditionViolated) => result.kind = "None"

\* C3 as claimed: a scaled cup amount a < 0.25 becomes a*16 tbsp when
\* a*16 >= 1 and a*16*3 tsp otherwise, a scaled tbsp amount a < 0.5 becomes
\* a*3 tsp, every other unit is kept, and no result is a cup amount below 0.25.
C3_DownshiftExact ==
    Scaled => \A i \in 1..NumIngr :
       LET in == InIng(i)  out == OutIng(i)  num == ScaledNum(i)  den == ScaledDen
       IN  /\ IF in.unit = "cup" /\ num * 4 < den
              THEN IF num * 16 >= den
                   THEN out.unit = "tbsp" /\ out.amount * den = num * 16 * 100
                   ELSE out.unit = "tsp" /\ out.amount * den = num * 48 * 100
              ELSE IF in.unit = "tbsp" /\ num * 2 < den
              THEN out.unit = "tsp" /\ out.amount * den = num * 3 * 100
              ELSE out.unit = in.unit
           /\ ~(out.unit = "cup" /\ out.amount < 25)

\* C3 amended: the same downshift, with the converted amount rounded to one
\* decimal: round(a*16, 1) tbsp, round(a*16*3, 1) tsp, round(a*3, 1) tsp.
C3_DownshiftRounded ==
    Scaled => \A i \in 1..NumIngr :
       LET in == InIng(i)  out == OutIng(i)  num == ScaledNum(i)  den == ScaledDen
       IN  /\ IF in.unit = "cup" /\ num * 4 < den
              THEN IF num * 16 >= den
                   THEN out.unit = "tbsp"
                        /\ out.amount = 10 * RoundHalfEven(num * 160, den)
                   ELSE out.unit = "tsp"
                        /\ out.amount = 10 * RoundHalfEven(num * 480, den)
              ELSE IF in.unit = "tbsp" /\ num * 2 < den
              THEN out.unit = "tsp" /\ out.amount = 10 * RoundHalfEven(num * 30, den)
              ELSE out.unit = in.unit
           /\ ~(out.unit = "cup" /\ out.amount < 25)

\* A cup amount scaled to exactly 0.2 cup came out as 3.2 tbsp.
C3_Witness ==
    /\ Scaled
    /\ \E i \in 1..NumIngr :
          /\ InIng(i).unit = "cup"
          /\ ScaledNum(i) * 5 = ScaledDen
          /\ OutIng(i).unit = "tbsp" /\ OutIng(i).amount = 320

\* C4: an ingredient whose name contains an exemption keyword and whose unit
\* is a volume unit is never given a weight unit: not by get_best_unit, not in
\* the scaled recipe, and no printed line in a weight unit names it.
C4_ExemptNeverWeight ==
    \A i \in 1..NumIngr :
       (AllKeys \subseteq InIng(i).keys /\ ExemptVolume(InIng(i))) =>
          /\ get_best_unit(InIng(i).name, InIng(i).amount, InIng(i).unit).unit
                \notin weight_units
          /\ Scaled => OutIng(i).unit \notin weight_units
          /\ shown => \A k \in DOMAIN lines :
                (lines[k].name = InIng(i).name /\ lines[k].unit \in weight_units)
                   => \E j \in 1..NumIngr :
                         InIng(j).name = InIng(i).name /\ ~ExemptVolume(InIng(j))

\* C5: scale_recipe applies the density rule of get_best_unit: an ingredient
\* whose scaled amount get_best_unit turns into grams (not exempt, a volume
\* unit, a density match, at least 1 g) is stored with unit g.
C5_ScaleUsesDensityRule ==
    Scaled => \A i \in 1..NumIngr :
       LET in == InIng(i)  num == ScaledNum(i)  den == ScaledDen
       IN  ( /\ (num * 100) % den = 0
             /\ ~IsExempt(Lower(in.name))
             /\ in.unit \in volume_units
             /\ FirstDensityMatch(Lower(in.name)) # 0
             /\ get_best_unit(in.name, (num * 100) \div den, in.unit).unit = "g" )
           => OutIng(i).unit = "g"

\* C6: display_recipe prints exactly one line per ingredient, in order: n
\* lines for n ingredients, the i-th naming the i-th ingredient.
C6_OneLinePerIngredient ==
    shown => /\ Len(lines) = NumIngr
             /\ \A i \in 1..NumIngr : lines[i].name = OutIng(i).name

\* C7: an ingredient with amount 0 is never converted: scaled, it has amount
\* 0 and the unit it had, and it is printed as 0 in that unit.
C7_ZeroKeepsUnit ==
    Scaled => \A i \in 1..NumIngr :
       InIng(i).amount = 0 =>
          /\ OutIng(i).amount = 0
          /\ OutIng(i).unit = InIng(i).unit
          /\ shown => \E k \in DOMAIN lines :
                /\ lines[k].name = InIng(i).name
                /\ lines[k].frac = "" /\ lines[k].value = 0
                /\ lines[k].unit = IF InIng(i).unit = "piece" THEN "" ELSE InIng(i).unit

----------------------------------------------------------------------------
(* Properties of convert_units (under SpecConv) *)

SameFamily(a, b) ==
    \/ a \in volume_units /\ b \in volume_units
    \/ a \in weight_units /\ b \in weight_units

Abs(x) == IF x < 0 THEN -x ELSE x

\* factor(a, b) >= 1: b is not a larger unit than a.
FactorAtLeastOne(a, b) ==
    a = b \/ CONVERSIONS[a][b].p >= CONVERSIONS[a][b].q * Pow10(CONVERSIONS[a][b].k)

\* C8 as claimed: for units a, b of one family and any amount x, converting
\* x from a to b and back gives an amount within 0.02 of x.
C8_RoundTripAnyPair ==
    (cBack.kind # "idle" /\ SameFamily(cUnit, cTarget)) =>
       cBack.kind = "ok" /\ Abs(cBack.amount - cAmount) <= 2

\* C8 amended: the round trip is within 0.02 of x when the factor from a to b
\* is at least 1 (b is not the larger unit), for amounts up to MaxConvAmount.
C8_RoundTripToSmallerUnit ==
    (cBack.kind # "idle" /\ SameFamily(cUnit, cTarget) /\ FactorAtLeastOne(cUnit, cTarget)) =>
       cBack.kind = "ok" /\ Abs(cBack.amount - cAmount) <= 2

\* A round trip through a smaller unit whose first conversion was rounded.
C8_Witness ==
    /\ cBack.kind = "ok"
    /\ SameFamily(cUnit, cTarget) /\ cUnit # cTarget
    /\ FactorAtLeastOne(cUnit, cTarget)
    /\ LET f == CONVERSIONS[cUnit][cTarget]
       IN  cOut.amount * f.q * Pow10(f.k) # cAmount * f.p

\* C9: unit names are matched without regard to case: convert_units gives for
\* two names what it gives for their lowercase forms (the same amount, or no
\* conversion in both cases).
C9_CaseInsensitive ==
    cOut.kind # "idle" =>
       \E o \in convert_units(cAmount, Lower(cUnit), Lower(cTarget)) :
          o.kind = cOut.kind /\ o.amount = cOut.amount

----------------------------------------------------------------------------
(* Properties of main (under SpecMain) *)

C10_Inv ==
    /\ (recipes = 0 /\ pc # "load") => (pc = "done" /\ prompts = 0 /\ scaleCalls = 0)
    /\ pc \in {"servings", "scale"} => (0 <= choice /\ choice < recipes)
    /\ scaleCalls <= 1
    /\ scaleCalls = 1 =>
          /\ 0 <= scaleArgs[1] /\ scaleArgs[1] < recipes
          /\ scaleArgs[2] > 0
    /\ pc = "done" => (recipes = 0 \/ scaleCalls = 1)

C10_Step ==
    /\ (pc = "select" /\ prompts' # prompts
          /\ ~(lastInput'.int /\ 1 <= lastInput'.value /\ lastInput'.value <= recipes))
       => pc' = "select"
    /\ (pc = "servings" /\ prompts' # prompts
          /\ ~(lastInput'.int /\ lastInput'.value > 0))
       => pc' = "servings"
    /\ (pc # "servings" /\ pc' = "servings")
       => (pc = "select" /\ lastInput'.int
             /\ 1 <= lastInput'.value /\ lastInput'.value <= recipes)
    /\ scaleCalls' # scaleCalls => pc = "scale"

\* C10: with no recipes loaded main ends without prompting or scaling;
\* otherwise every non-integer or out-of-range selection and every
\* non-integer or non-positive serving count re-prompts the same question,
\* the servings prompt is reached only by a valid selection, and scale_recipe
\* is called at most once, with a loaded recipe and a positive serving count.
C10_PromptProtocol == []C10_Inv /\ [][C10_Step]_vars

\* A session that re-prompted at least once and then called scale_recipe.
C10_Witness ==
    /\ pc = "done" /\ scaleCalls = 1 /\ prompts >= 3

====
